---- MODULE Spec2Model ----
(***************************************************************************)
(* The copy-trade synchronisation client of metamon: the React hook        *)
(* useCopyTrades (frontend/src/components/layout/Navbar.tsx, lines         *)
(* 292-534; the wagmi variant at 647-923 has the same connection code and  *)
(* the same store handlers).                                               *)
(*                                                                         *)
(* One action is one task of the browser's event loop: a WebSocket event   *)
(* handler, a timer callback, a user call of the hook's API, or a change   *)
(* of the auth store together with the re-render and the effect it causes  *)
(* (the store is read through a synchronous subscription, so the effect's  *)
(* cleanup and body run in the same task as the change).                   *)
(*                                                                         *)
(* A WebSocket object lives in a slot of sock.  Its handlers are closures: *)
(* they capture the socket itself and the connect callback that created    *)
(* it, and that callback captured the token of the render it was made in.  *)
(* A slot therefore also records that captured token, the reconnect        *)
(* timeout its onclose created and the ping interval its onopen created.   *)
(*                                                                         *)
(* Of the hook's state, isExecuting is not a variable: it is set and reset *)
(* inside the one task of executeTradeOnChain.  approveUsdcSpending is the *)
(* one call that is suspended across tasks, at its await.                  *)
(*                                                                         *)
(* The second half models the hook useWebSocket                            *)
(* (frontend/src/hooks/use-websocket.ts), the same connection manager with *)
(* a counter of reconnect attempts, over the same variables: its sockets   *)
(* also record the counter their connect captured.  The specifications:    *)
(*   Spec      useCopyTrades, one logged-in session, frames and operations *)
(*   SpecConn  useCopyTrades, the connection manager under every change of *)
(*             the token                                                   *)
(*   SpecOrch  useCopyTrades, approvals, frames that are no JSON or carry  *)
(*             nothing for their case, operations in every connection state*)
(*   SpecWS    useWebSocket, the connection manager                        *)
(*   SpecSink  useWebSocket, the frames that arrive                        *)
(*   SpecBacklog  useWebSocket, reconnect timeouts that come due together  *)
(***************************************************************************)
EXTENDS Integers, Sequences, FiniteSets, TLC

\* ---- bounds of the model
MaxSockets == 2      \* WebSocket objects alive at once (slots of sock)
MaxStore == 3        \* length of pendingTrades above which no frame appends
MaxSnapshot == 2     \* length of the trades list of a pending_trades frame

\* ---- values
Socks == 1..MaxSockets
NoSock == 0                      \* a ref holding null / undefined / a dead handle
Tokens == {"tokA", "tokB"}
NoToken == "null"
TradeIds == {"T1", "T2"}
NoId == "null"
Sizes == {"10", "20"}
Statuses == {"pending", "executed"}
Trades == [id : TradeIds, size : Sizes, status : Statuses]
DemoTx == "demo-tx"

VARIABLES
  token,                \* useAuthStore().token (isAuthenticated is token # NoToken)
  sock,                 \* the WebSocket objects and what their handlers captured
  wsRef,                \* wsRef.current
  reconnectTimeoutRef,  \* slot whose onclose created the timeout the ref holds
  pingIntervalRef,      \* slot whose onopen created the interval the ref holds
  isConnected,
  pendingTrades,        \* the store, a sequence of trades
  executingTradeId,
  sent,                 \* frames put on the wire by the last task
  last,                 \* the last task: its kind and its arguments
  tornDown,             \* disconnect() ran and the effect has not called connect() since
  reconnectAttempts,    \* useWebSocket's state of that name, every queued update applied
  closureAttempts,      \* the reconnectAttempts that useWebSocket's current connect captured
  retries,              \* reconnect timeouts that have fired since the last open
  needsApproval,
  isApproving,
  approvalsInFlight,    \* calls of approveUsdcSpending suspended at their await
  skippedInFlight       \* ids skipped since an approval was started with none in flight

connVars == <<sock, wsRef, reconnectTimeoutRef, pingIntervalRef, isConnected>>
storeVars == <<pendingTrades, executingTradeId>>
wsVars == <<reconnectAttempts, closureAttempts, retries>>
apprVars == <<needsApproval, isApproving, approvalsInFlight, skippedInFlight>>
vars == <<token, sock, wsRef, reconnectTimeoutRef,
          pingIntervalRef, isConnected, pendingTrades, executingTradeId,
          sent, last, tornDown, reconnectAttempts, closureAttempts, retries,
          needsApproval, isApproving, approvalsInFlight, skippedInFlight>>

\* ---- the store's list operations
Ids(trades) == {trades[i].id : i \in 1..Len(trades)}

\* the snapshot taken as it comes
KeepAll(trades) == trades

\* message.trades.filter(t => t.status === "pending")
FilterPending(trades) == SelectSeq(trades, LAMBDA t : t.status = "pending")

\* removal of the first entry with the id only
RECURSIVE RemoveFirstById(_, _)
RemoveFirstById(trades, id) ==
  IF trades = <<>> THEN <<>>
  ELSE IF Head(trades).id = id THEN Tail(trades)
  ELSE <<Head(trades)>> \o RemoveFirstById(Tail(trades), id)

\* prev.splice(prev.findIndex(t => t.id === id), 1): an index of -1, for an id that
\* is absent, takes the last entry out
RemoveAtIndexOf(trades, id) ==
  IF id \in Ids(trades) THEN RemoveFirstById(trades, id)
  ELSE SubSeq(trades, 1, Len(trades) - 1)

\* prev.filter(t => t.id !== id)
RemoveById(trades, id) == SelectSeq(trades, LAMBDA t : t.id # id)

\* [trade, ...prev]
PrependTrade(trades, trade) == <<trade>> \o trades

\* [...prev, trade]
AppendTrade(trades, trade) == Append(trades, trade)

\* ---- WebSocket objects
NoSocket == [readyState |-> "NONE", token |-> NoToken, timer |-> FALSE, ping |-> FALSE]

NewSocket(tok) == [readyState |-> "CONNECTING", token |-> tok, timer |-> FALSE, ping |-> FALSE]

\* the refs and the connection state of the hook, as one value the hook's
\* functions transform
Cur ==
  [sock |-> sock, wsRef |-> wsRef, reconnectTimeoutRef |-> reconnectTimeoutRef,
   pingIntervalRef |-> pingIntervalRef, isConnected |-> isConnected]

IsOpen(c, s) == s # NoSock /\ c.sock[s].readyState = "OPEN"

Live(c) == {s \in Socks : c.sock[s].readyState \in {"CONNECTING", "OPEN"}}

FreeSlots(c) == {s \in Socks : c.sock[s].readyState = "NONE"}

\* A closed socket that no ref, timer or interval reaches any more is garbage: its
\* slot is free again.  A ref to a timer that has fired or was cleared behaves as an
\* empty ref (clearing it again does nothing).
Collect(c) ==
  LET dead(s) == /\ c.sock[s].readyState = "CLOSED"
                 /\ ~c.sock[s].timer
                 /\ ~c.sock[s].ping
                 /\ c.wsRef # s
      live(ref, f) == IF ref # NoSock /\ c.sock[ref][f] THEN ref ELSE NoSock
  IN  [c EXCEPT !.sock = [s \in Socks |-> IF dead(s) THEN NoSocket ELSE c.sock[s]],
                !.reconnectTimeoutRef = live(c.reconnectTimeoutRef, "timer"),
                !.pingIntervalRef = live(c.pingIntervalRef, "ping")]

\* clearTimeout(reconnectTimeoutRef.current)
clearTimeout(c) ==
  IF c.reconnectTimeoutRef = NoSock THEN c
  ELSE [c EXCEPT !.sock[c.reconnectTimeoutRef].timer = FALSE]

\* clearInterval(pingIntervalRef.current)
clearInterval(c) ==
  IF c.pingIntervalRef = NoSock THEN c
  ELSE [c EXCEPT !.sock[c.pingIntervalRef].ping = FALSE]

\* ws.close(): starts the closing handshake of a socket that is connecting or open;
\* the close event comes in a later task
close(c, s) ==
  IF c.sock[s].readyState \in {"CONNECTING", "OPEN"}
  THEN [c EXCEPT !.sock[s].readyState = "CLOSING"]
  ELSE c

\* the guards of connect(): the captured token, then the current handle
connectReturns(c, tok) == tok = NoToken \/ IsOpen(c, c.wsRef)

\* connect() of the render whose token was tok
connect(c, tok) ==
  IF connectReturns(c, tok) THEN c
  ELSE LET f == CHOOSE s \in FreeSlots(c) : \A r \in FreeSlots(c) : s <= r
       IN  [c EXCEPT !.sock[f] = NewSocket(tok), !.wsRef = f]

\* the model can follow connect() when it returns or a slot is free
CanConnect(c, tok) == connectReturns(c, tok) \/ FreeSlots(c) # {}

disconnect(c) ==
  LET c1 == clearInterval(clearTimeout(c))
      c2 == IF c1.wsRef # NoSock
            THEN [close(c1, c1.wsRef) EXCEPT !.wsRef = NoSock]
            ELSE c1
  IN  [c2 EXCEPT !.isConnected = FALSE]

\* ws.onopen of socket s
onopen(c, s) ==
  [c EXCEPT !.isConnected = TRUE, !.sock[s].ping = TRUE, !.pingIntervalRef = s]

\* ws.onclose of socket s
onclose(c, s) ==
  LET c1 == clearInterval([c EXCEPT !.isConnected = FALSE])
  IN  [c1 EXCEPT !.sock[s].timer = TRUE, !.reconnectTimeoutRef = s]

SetConn(c) ==
  LET n == Collect(c)
  IN  /\ sock' = n.sock
      /\ wsRef' = n.wsRef
      /\ reconnectTimeoutRef' = n.reconnectTimeoutRef
      /\ pingIntervalRef' = n.pingIntervalRef
      /\ isConnected' = n.isConnected

\* ---- frames and the record of the last task
Frame(type, id, hash, s) == [type |-> type, trade_id |-> id, tx_hash |-> hash, sock |-> s]

\* had: the store held the id the task names (for pending_trades: held anything)
\* when the task began
Task(op, s, id, status, trades, had) ==
  [op |-> op, sock |-> s, id |-> id, status |-> status, trades |-> trades, had |-> had]

\* a send without the readyState guard
sendUnguarded(c, type, id, hash) == <<Frame(type, id, hash, c.wsRef)>>

\* sendMessage(message)
sendMessage(c, type, id, hash) ==
  IF IsOpen(c, c.wsRef) THEN <<Frame(type, id, hash, c.wsRef)>> ELSE <<>>

Init ==
  /\ token = NoToken
  /\ sock = [s \in Socks |-> NoSocket]
  /\ wsRef = NoSock
  /\ reconnectTimeoutRef = NoSock
  /\ pingIntervalRef = NoSock
  /\ isConnected = FALSE
  /\ pendingTrades = <<>>
  /\ executingTradeId = NoId
  /\ sent = <<>>
  /\ last = Task("mount", NoSock, NoId, "", <<>>, FALSE)
  /\ tornDown = TRUE
  /\ reconnectAttempts = 0
  /\ closureAttempts = 0
  /\ retries = 0
  /\ needsApproval = FALSE
  /\ isApproving = FALSE
  /\ approvalsInFlight = 0
  /\ skippedInFlight = {}

\* ---- the auth store changes; the effect's cleanup and body run
\* an effect that also empties the store when the session ends
authChangeClearsStore(t) ==
  /\ t # token
  /\ LET c1 == Collect(disconnect(Cur))
     IN  /\ CanConnect(c1, t)
         /\ SetConn(IF t # NoToken THEN connect(c1, t) ELSE disconnect(c1))
  /\ token' = t
  /\ tornDown' = (t = NoToken)
  /\ pendingTrades' = IF t = NoToken THEN <<>> ELSE pendingTrades
  /\ sent' = <<>>
  /\ last' = Task("auth", NoSock, NoId, t, <<>>, FALSE)
  /\ UNCHANGED <<apprVars, wsVars, executingTradeId>>

AuthChange(t) ==
  /\ t # token
  /\ LET c1 == Collect(disconnect(Cur))
     IN  /\ CanConnect(c1, t)
         /\ SetConn(IF t # NoToken THEN connect(c1, t) ELSE disconnect(c1))
  /\ token' = t
  /\ tornDown' = (t = NoToken)
  /\ sent' = <<>>
  /\ last' = Task("auth", NoSock, NoId, t, <<>>, FALSE)
  /\ UNCHANGED <<apprVars, wsVars, storeVars>>

\* the caller uses the disconnect the hook returns
Disconnect ==
  /\ SetConn(disconnect(Cur))
  /\ tornDown' = TRUE
  /\ sent' = <<>>
  /\ last' = Task("disconnect", NoSock, NoId, "", <<>>, FALSE)
  /\ UNCHANGED <<apprVars, wsVars, token, storeVars>>

\* ---- events of socket s
OnOpen(s) ==
  /\ sock[s].readyState = "CONNECTING"
  /\ SetConn(onopen([Cur EXCEPT !.sock[s].readyState = "OPEN"], s))
  /\ sent' = <<>>
  /\ last' = Task("onopen", s, NoId, "", <<>>, FALSE)
  /\ UNCHANGED <<apprVars, wsVars, token, storeVars, tornDown>>

\* an onerror that tears the whole connection down
onerrorDisconnects(c, s) == disconnect(c)

\* ws.onerror of socket s
onerror(c, s) == close(c, s)

\* the connection fails or the server closes it: with an error event first (the
\* browser fires it once the socket is closed, in the task of the close event) or
\* without
OnClose(s, error) ==
  /\ sock[s].readyState \in {"CONNECTING", "OPEN"}
  /\ LET c0 == [Cur EXCEPT !.sock[s].readyState = "CLOSED"]
     IN  SetConn(onclose(IF error THEN onerror(c0, s) ELSE c0, s))
  /\ sent' = <<>>
  /\ last' = Task("onclose", s, NoId, IF error THEN "error" ELSE "closed", <<>>, FALSE)
  /\ UNCHANGED <<apprVars, wsVars, token, storeVars, tornDown>>

\* the closing handshake that ws.close() started is over
OnCloseAfterClose(s) ==
  /\ sock[s].readyState = "CLOSING"
  /\ SetConn(onclose([Cur EXCEPT !.sock[s].readyState = "CLOSED"], s))
  /\ sent' = <<>>
  /\ last' = Task("onclose", s, NoId, "closing", <<>>, FALSE)
  /\ UNCHANGED <<apprVars, wsVars, token, storeVars, tornDown>>

\* the timeout that onclose of socket s set fires: connect() of that closure
ReconnectTimeout(s) ==
  /\ sock[s].timer
  /\ LET c1 == Collect([Cur EXCEPT !.sock[s].timer = FALSE])
     IN  /\ CanConnect(c1, sock[s].token)
         /\ SetConn(connect(c1, sock[s].token))
  /\ sent' = <<>>
  /\ last' = Task("reconnect", s, NoId, sock[s].token, <<>>, FALSE)
  /\ UNCHANGED <<apprVars, wsVars, token, storeVars, tornDown>>

\* the interval that onopen of socket s set fires
PingInterval(s) ==
  /\ sock[s].ping
  /\ sent' = IF sock[s].readyState = "OPEN" THEN <<Frame("ping", NoId, "", s)>> ELSE <<>>
  /\ last' = Task("ping", s, NoId, "", <<>>, FALSE)
  /\ UNCHANGED <<apprVars, wsVars, token, connVars, storeVars, tornDown>>

\* ---- ws.onmessage, by the type of the decoded frame.  Every socket's handler
\* writes the one store, so which open socket delivered the frame makes no difference
Receiving == {s \in Socks : sock[s].readyState = "OPEN"} # {}

\* the trades lists a pending_trades frame can carry: the server's set, no id twice
Snapshots ==
  {q \in UNION {[1..n -> Trades] : n \in 0..MaxSnapshot} :
     \A i, j \in 1..Len(q) : q[i].id = q[j].id => i = j}

\* case "pending_trades", message.trades present
OnPendingTrades(trades) ==
  /\ Receiving
  /\ pendingTrades' = FilterPending(trades)
  /\ sent' = <<>>
  /\ last' = Task("pending_trades", NoSock, NoId, "", trades, pendingTrades # <<>>)
  /\ UNCHANGED <<apprVars, wsVars, token, connVars, executingTradeId, tornDown>>

\* an append to the store of the render in which the socket was made: the empty one
appendToCapturedStore(trade) ==
  /\ Receiving
  /\ Len(pendingTrades) < MaxStore
  /\ pendingTrades' = AppendTrade(<<>>, trade)
  /\ sent' = <<>>
  /\ last' = Task("new_copy_trade", NoSock, trade.id, "", <<trade>>, trade.id \in Ids(pendingTrades))
  /\ UNCHANGED <<apprVars, wsVars, token, connVars, executingTradeId, tornDown>>

\* case "new_copy_trade", message.trade present
OnNewCopyTrade(trade) ==
  /\ Receiving
  /\ Len(pendingTrades) < MaxStore
  /\ pendingTrades' = AppendTrade(pendingTrades, trade)
  /\ sent' = <<>>
  /\ last' = Task("new_copy_trade", NoSock, trade.id, "", <<trade>>, trade.id \in Ids(pendingTrades))
  /\ UNCHANGED <<apprVars, wsVars, token, connVars, executingTradeId, tornDown>>

\* case "trade_status"
TradeStatuses == {"executed", "skipped", "failed"}

OnTradeStatus(id, status) ==
  /\ Receiving
  /\ pendingTrades' = IF status \in {"executed", "skipped"}
                      THEN RemoveById(pendingTrades, id)
                      ELSE pendingTrades
  /\ sent' = <<>>
  /\ last' = Task("trade_status", NoSock, id, status, <<>>, id \in Ids(pendingTrades))
  /\ UNCHANGED <<apprVars, wsVars, token, connVars, executingTradeId, tornDown>>

\* case "connected", "heartbeat", "pong"
OnInformational(type) ==
  /\ Receiving
  /\ sent' = <<>>
  /\ last' = Task(type, NoSock, NoId, "", <<>>, FALSE)
  /\ UNCHANGED <<apprVars, wsVars, token, connVars, storeVars, tornDown>>

\* ---- the caller's operations on trades
\* an execute that leaves the in-flight marker set
executeKeepsMarker(id, walletConnected) ==
  /\ sent' = IF walletConnected
             THEN sendMessage(Cur, "execute_trade", id, DemoTx)
             ELSE <<>>
  /\ pendingTrades' = IF walletConnected
                      THEN RemoveById(pendingTrades, id)
                      ELSE pendingTrades
  /\ executingTradeId' = IF walletConnected THEN id ELSE executingTradeId
  /\ last' = Task("executeTradeOnChain", NoSock, id,
                  IF walletConnected THEN "wallet" ELSE "noWallet", <<>>,
                  id \in Ids(pendingTrades))
  /\ UNCHANGED <<apprVars, wsVars, token, connVars, tornDown>>

\* an execute without the wallet guard
executeUnguarded(id, walletConnected) ==
  /\ sent' = sendMessage(Cur, "execute_trade", id, DemoTx)
  /\ pendingTrades' = RemoveById(pendingTrades, id)
  /\ executingTradeId' = NoId
  /\ last' = Task("executeTradeOnChain", NoSock, id,
                  IF walletConnected THEN "wallet" ELSE "noWallet", <<>>,
                  id \in Ids(pendingTrades))
  /\ UNCHANGED <<apprVars, wsVars, token, connVars, tornDown>>

\* executeTradeOnChain(trade) with trade.id = id (the only field of the trade it
\* uses besides the toast's text), called in a render where the wallet hook reported
\* walletConnected: no await between its statements, one task
executeTradeOnChain(id, walletConnected) ==
  /\ sent' = IF walletConnected
             THEN sendMessage(Cur, "execute_trade", id, DemoTx)
             ELSE <<>>
  /\ pendingTrades' = IF walletConnected
                      THEN RemoveById(pendingTrades, id)
                      ELSE pendingTrades
  /\ executingTradeId' = IF walletConnected THEN NoId ELSE executingTradeId
  /\ last' = Task("executeTradeOnChain", NoSock, id,
                  IF walletConnected THEN "wallet" ELSE "noWallet", <<>>,
                  id \in Ids(pendingTrades))
  /\ UNCHANGED <<apprVars, wsVars, token, connVars, tornDown>>

\* the statements of executeTradeOnChain's try block that call out of the hook and
\* can throw: the first toast, ws.send inside sendMessage, the last toast
ThrowPoints == {"toast", "send", "recorded"}

\* a catch block that leaves the in-flight marker as the try block set it
catchKeepsMarker(id, at) ==
  /\ at = "send" => IsOpen(Cur, wsRef)
  /\ sent' = IF at = "recorded" THEN sendMessage(Cur, "execute_trade", id, DemoTx) ELSE <<>>
  /\ pendingTrades' = IF at = "recorded" THEN RemoveById(pendingTrades, id) ELSE pendingTrades
  /\ executingTradeId' = IF at = "recorded" THEN NoId ELSE id
  /\ last' = Task("executeTradeOnChain", NoSock, id, at, <<>>, id \in Ids(pendingTrades))
  /\ UNCHANGED <<apprVars, wsVars, token, connVars, tornDown>>

\* executeTradeOnChain(trade) with a wallet connected, when the statement at throws:
\* the statements before it have run, then the catch block (its toast, and
\* setExecutingTradeId(null)) and the finally block.  ws.send is only reached when
\* sendMessage finds the socket open, and a send that throws puts no frame on the wire.
executeTradeOnChainThrows(id, at) ==
  /\ at = "send" => IsOpen(Cur, wsRef)
  /\ sent' = IF at = "recorded" THEN sendMessage(Cur, "execute_trade", id, DemoTx) ELSE <<>>
  /\ pendingTrades' = IF at = "recorded" THEN RemoveById(pendingTrades, id) ELSE pendingTrades
  /\ executingTradeId' = NoId
  /\ last' = Task("executeTradeOnChain", NoSock, id, at, <<>>, id \in Ids(pendingTrades))
  /\ UNCHANGED <<apprVars, wsVars, token, connVars, tornDown>>

\* a skip that leaves the removal to the server's trade_status
skipAwaitsStatus(id) ==
  /\ sent' = sendMessage(Cur, "skip_trade", id, "")
  /\ pendingTrades' = pendingTrades
  /\ skippedInFlight' = IF approvalsInFlight > 0 THEN skippedInFlight \cup {id}
                                                ELSE skippedInFlight
  /\ last' = Task("skipTrade", NoSock, id, "", <<>>, id \in Ids(pendingTrades))
  /\ UNCHANGED <<needsApproval, isApproving, approvalsInFlight>>
  /\ UNCHANGED <<wsVars, token, connVars, executingTradeId, tornDown>>

\* a skip that does nothing unless its frame can leave
skipOnlyWhenOpen(id) ==
  /\ sent' = sendMessage(Cur, "skip_trade", id, "")
  /\ pendingTrades' = IF IsOpen(Cur, wsRef) THEN RemoveById(pendingTrades, id)
                                            ELSE pendingTrades
  /\ skippedInFlight' = IF approvalsInFlight > 0 THEN skippedInFlight \cup {id}
                                                ELSE skippedInFlight
  /\ last' = Task("skipTrade", NoSock, id, "", <<>>, id \in Ids(pendingTrades))
  /\ UNCHANGED <<needsApproval, isApproving, approvalsInFlight>>
  /\ UNCHANGED <<wsVars, token, connVars, executingTradeId, tornDown>>

skipTrade(id) ==
  /\ sent' = sendMessage(Cur, "skip_trade", id, "")
  /\ pendingTrades' = RemoveById(pendingTrades, id)
  /\ skippedInFlight' = IF approvalsInFlight > 0 THEN skippedInFlight \cup {id}
                                                ELSE skippedInFlight
  /\ last' = Task("skipTrade", NoSock, id, "", <<>>, id \in Ids(pendingTrades))
  /\ UNCHANGED <<needsApproval, isApproving, approvalsInFlight>>
  /\ UNCHANGED <<wsVars, token, connVars, executingTradeId, tornDown>>

refreshPendingTrades ==
  /\ sent' = sendMessage(Cur, "get_pending", NoId, "")
  /\ last' = Task("refreshPendingTrades", NoSock, NoId, "", <<>>, FALSE)
  /\ UNCHANGED <<apprVars, wsVars, token, connVars, storeVars, tornDown>>

\* ---- approveUsdcSpending: the task of the call, which runs up to the await, and
\* the task that resumes it when the timeout of the simulated approval has fired
MaxApprovals == 2    \* calls of approveUsdcSpending suspended at once

\* how a part of approveUsdcSpending's try block ends: it runs through, or its
\* toast throws
ApproveEnds == {"ok", "toast"}

\* approveUsdcSpending(amount) in a render where the wallet hook reported
\* walletConnected.  Without a wallet: the toast, and return.  With one:
\* setIsApproving(true) and the toast; if that throws, the catch block and
\* finally's setIsApproving(false) run in this task, else the call is suspended
approveUsdcSpending(walletConnected, at) ==
  /\ (walletConnected /\ at = "ok") => approvalsInFlight < MaxApprovals
  /\ isApproving' = IF walletConnected THEN at = "ok" ELSE isApproving
  /\ approvalsInFlight' = IF walletConnected /\ at = "ok" THEN approvalsInFlight + 1
                                                         ELSE approvalsInFlight
  /\ skippedInFlight' = IF walletConnected /\ at = "ok" /\ approvalsInFlight = 0
                        THEN {}
                        ELSE skippedInFlight
  /\ sent' = <<>>
  /\ last' = Task("approveUsdcSpending", NoSock, NoId,
                  IF ~walletConnected THEN "noWallet"
                  ELSE IF at = "ok" THEN "pending" ELSE at, <<>>, FALSE)
  /\ UNCHANGED <<needsApproval, wsVars, token, connVars, storeVars, tornDown>>

\* a completion that puts the trades skipped meanwhile back at the end of the store
resumePutsBack(at) ==
  /\ approvalsInFlight > 0
  /\ needsApproval' = FALSE
  /\ isApproving' = FALSE
  /\ approvalsInFlight' = approvalsInFlight - 1
  /\ pendingTrades' =
       IF skippedInFlight = {} \/ Len(pendingTrades) >= MaxStore THEN pendingTrades
       ELSE Append(pendingTrades,
                   [id |-> CHOOSE id \in skippedInFlight : TRUE,
                    size |-> "10", status |-> "pending"])
  /\ sent' = <<>>
  /\ last' = Task("approvalResumes", NoSock, NoId,
                  IF at = "ok" THEN "confirmed" ELSE at, <<>>, FALSE)
  /\ UNCHANGED <<skippedInFlight, wsVars, token, connVars, executingTradeId, tornDown>>

\* a suspended approveUsdcSpending resumes: setNeedsApproval(false), the toast,
\* the catch block if that throws, and finally's setIsApproving(false)
approvalResumes(at) ==
  /\ approvalsInFlight > 0
  /\ needsApproval' = FALSE
  /\ isApproving' = FALSE
  /\ approvalsInFlight' = approvalsInFlight - 1
  /\ sent' = <<>>
  /\ last' = Task("approvalResumes", NoSock, NoId,
                  IF at = "ok" THEN "confirmed" ELSE at, <<>>, FALSE)
  /\ UNCHANGED <<skippedInFlight, wsVars, token, connVars, storeVars, tornDown>>

\* ---- ws.onmessage on the text of a frame
\* the types of the frames that are sent as text here, of both sockets
TextTypes ==
  {"connected", "heartbeat",
   "position_update", "position_opened", "position_closed", "copy_updated"}

\* the text of a frame that carries its type only
FrameText(type) == "{\"type\":\"" \o type \o "\"}"

\* texts a server sends: two that are no JSON (the reply to a ping of the positions
\* socket, an empty frame) and one that is
HeartbeatText == FrameText("heartbeat")
Texts == {"pong", "", HeartbeatText}

SyntaxError == [thrown |-> "SyntaxError"]

\* JSON.parse(event.data)
JSONparse(text) ==
  IF \E type \in TextTypes : text = FrameText(type)
  THEN [type |-> CHOOSE type \in TextTypes : text = FrameText(type)]
  ELSE SyntaxError

\* a catch block that resets the store
catchClearsStore(text) ==
  /\ Receiving
  /\ pendingTrades' = IF JSONparse(text) = SyntaxError THEN <<>> ELSE pendingTrades
  /\ sent' = <<>>
  /\ last' = Task("onmessage", NoSock, NoId,
                  IF JSONparse(text) = SyntaxError THEN "SyntaxError"
                  ELSE JSONparse(text).type, <<>>, pendingTrades # <<>>)
  /\ UNCHANGED <<apprVars, wsVars, token, connVars, executingTradeId, tornDown>>

\* ws.onmessage with event.data = text: JSON.parse throws and the catch block
\* swallows it, or the frame decodes to a heartbeat, which the switch passes over
OnMessageText(text) ==
  /\ Receiving
  /\ sent' = <<>>
  /\ last' = Task("onmessage", NoSock, NoId,
                  IF JSONparse(text) = SyntaxError THEN "SyntaxError"
                  ELSE JSONparse(text).type, <<>>, pendingTrades # <<>>)
  /\ UNCHANGED <<apprVars, wsVars, token, connVars, storeVars, tornDown>>

\* ---- ws.onmessage on a decoded message.  A field the frame did not carry is
\* absent from the record (undefined in the code)
Has(message, field) == field \in DOMAIN message

\* message.trade_id, undefined when the frame carries none
TradeIdOf(message) == IF Has(message, "trade_id") THEN message.trade_id ELSE NoId

\* a switch whose pending_trades case reads message.trades ?? []
onmessageDefaultsTrades(prev, message) ==
  CASE message.type = "pending_trades"
         -> IF Has(message, "trades") THEN FilterPending(message.trades) ELSE <<>>
    [] message.type = "new_copy_trade" /\ Has(message, "trade")
         -> AppendTrade(prev, message.trade)
    [] message.type = "trade_status" /\ Has(message, "status")
                                     /\ message.status \in {"executed", "skipped"}
         -> RemoveById(prev, TradeIdOf(message))
    [] OTHER -> prev

\* the switch of ws.onmessage as what it makes of the store prev: a case sets the
\* store only under its test of the field it reads (an empty trades list is truthy)
onmessage(prev, message) ==
  CASE message.type = "pending_trades" /\ Has(message, "trades")
         -> FilterPending(message.trades)
    [] message.type = "new_copy_trade" /\ Has(message, "trade")
         -> AppendTrade(prev, message.trade)
    [] message.type = "trade_status" /\ Has(message, "status")
                                     /\ message.status \in {"executed", "skipped"}
         -> RemoveById(prev, TradeIdOf(message))
    [] OTHER -> prev

\* types the switch has a case for that reads no field, and one it has no case for
BareTypes == {"connected", "heartbeat", "pong", "position_update"}

\* decoded messages at the edges of the switch: a type alone, for the cases that
\* read no field and for those that read one; a pending_trades frame with an empty
\* list; trade_status frames with an id and no status, a status the switch passes
\* over, and one it acts on
EdgeMessages ==
  {[type |-> type] :
     type \in BareTypes \cup {"pending_trades", "new_copy_trade", "trade_status"}}
    \cup {[type |-> "pending_trades", trades |-> <<>>]}
    \cup {[type |-> "trade_status", trade_id |-> id] : id \in TradeIds}
    \cup {[type |-> "trade_status", trade_id |-> id, status |-> status] :
            id \in TradeIds, status \in {"failed", "executed"}}

\* the record of an onmessage task on a decoded message
MessageTask(message) == [op |-> "message", message |-> message]

\* ws.onmessage on a frame that decodes to message
OnMessage(message) ==
  /\ Receiving
  /\ pendingTrades' = onmessage(pendingTrades, message)
  /\ sent' = <<>>
  /\ last' = MessageTask(message)
  /\ UNCHANGED <<apprVars, wsVars, token, connVars, executingTradeId, tornDown>>

\* ---- the specifications
InfoTypes == {"connected", "heartbeat", "pong"}

\* inbound frames and the caller's operations on trades
StoreNext ==
  \/ \E trades \in Snapshots : OnPendingTrades(trades)
  \/ \E trade \in Trades : OnNewCopyTrade(trade)
  \/ \E id \in TradeIds, status \in TradeStatuses : OnTradeStatus(id, status)
  \/ \E type \in InfoTypes : OnInformational(type)
  \/ \E id \in TradeIds, w \in BOOLEAN : executeTradeOnChain(id, w)
  \/ \E id \in TradeIds, at \in ThrowPoints : executeTradeOnChainThrows(id, at)
  \/ \E id \in TradeIds : skipTrade(id)
  \/ refreshPendingTrades

\* One logged-in session of the whole hook: the log-in, the socket opening, its
\* closing by the server or the network, the reconnect timeout and the ping
\* interval, every inbound frame and every operation of the caller on trades.
Next ==
  \/ AuthChange("tokA")
  \/ \E s \in Socks : OnOpen(s)
  \/ \E s \in Socks : OnClose(s, FALSE)
  \/ \E s \in Socks : ReconnectTimeout(s)
  \/ \E s \in Socks : PingInterval(s)
  \/ StoreNext

Spec == Init /\ [][Next]_vars

\* The connection manager alone, in full: log-in, log-out and change of account,
\* the caller's disconnect(), connections that end with or without an error event,
\* both timers.  No frame arrives and the store stays empty.
ConnNext ==
  \/ \E t \in Tokens \cup {NoToken} : AuthChange(t)
  \/ Disconnect
  \/ \E s \in Socks : OnOpen(s)
  \/ \E s \in Socks, error \in BOOLEAN : OnClose(s, error)
  \/ \E s \in Socks : OnCloseAfterClose(s)
  \/ \E s \in Socks : ReconnectTimeout(s)
  \/ \E s \in Socks : PingInterval(s)

SpecConn == Init /\ [][ConnNext]_vars

\* The approval and the frames that are no JSON, under one account: log-in and
\* log-out, the socket opening and closing, the reconnect timeout, the caller's
\* disconnect(), snapshots and new trades of one size arriving, trades being
\* skipped and executed, approvals being started and resuming, and the frames at
\* the edges of the switch
OrchTrades == {t \in Trades : t.size = "10" /\ t.status = "pending"}

\* the snapshots of such trades
OrchSnapshots == {q \in Snapshots : \A i \in 1..Len(q) : q[i] \in OrchTrades}

OrchNext ==
  \/ \E t \in {"tokA", NoToken} : AuthChange(t)
  \/ \E s \in Socks : OnOpen(s)
  \/ \E s \in Socks : OnClose(s, FALSE)
  \/ \E s \in Socks : ReconnectTimeout(s)
  \/ Disconnect
  \/ \E text \in Texts : OnMessageText(text)
  \/ \E message \in EdgeMessages : OnMessage(message)
  \/ \E trades \in OrchSnapshots : OnPendingTrades(trades)
  \/ \E trade \in OrchTrades : OnNewCopyTrade(trade)
  \/ \E id \in TradeIds : skipTrade(id)
  \/ \E id \in TradeIds, w \in BOOLEAN : executeTradeOnChain(id, w)
  \/ \E id \in TradeIds, at \in ThrowPoints : executeTradeOnChainThrows(id, at)
  \/ \E w \in BOOLEAN, at \in ApproveEnds : approveUsdcSpending(w, at)
  \/ \E at \in ApproveEnds : approvalResumes(at)

SpecOrch == Init /\ [][OrchNext]_vars

\* ======================================================================
\* The hook useWebSocket (frontend/src/hooks/use-websocket.ts): the same connection
\* manager with a counter of reconnect attempts.  reconnectAttempts is React state
\* that connect captures, and connect is a dependency of the effect: a change of the
\* counter, set from a timeout or a socket event, is rendered in a later task, and
\* that render makes a new connect and runs the effect's cleanup and body again.
\* ======================================================================
MaxWsSockets == 3    \* WebSocket objects of useWebSocket alive at once
MaxRetries == 5      \* reconnect timeouts that fire without an open in between

maxReconnectAttempts == 5
BaseDelay == 1000
JitterWindow == 1000
PingPeriod == 25000

WsSocks == 1..MaxWsSockets

\* Math.random() * 1000: the ends of [0, 1000)
Jitters == {0, JitterWindow - 1}

\* a socket of useWebSocket also records the reconnectAttempts its connect captured
WsNoSocket ==
  [readyState |-> "NONE", token |-> NoToken, attempts |-> 0, timer |-> FALSE, ping |-> FALSE]

WsNewSocket(tok, n) ==
  [readyState |-> "CONNECTING", token |-> tok, attempts |-> n, timer |-> FALSE, ping |-> FALSE]

WsCur ==
  [sock |-> sock, wsRef |-> wsRef, reconnectTimeoutRef |-> reconnectTimeoutRef,
   pingIntervalRef |-> pingIntervalRef, isConnected |-> isConnected,
   reconnectAttempts |-> reconnectAttempts]

WsFreeSlots(c) == {s \in DOMAIN c.sock : c.sock[s].readyState = "NONE"}

\* as Collect, for the sockets of useWebSocket
WsCollect(c) ==
  LET dead(s) == /\ c.sock[s].readyState = "CLOSED"
                 /\ ~c.sock[s].timer
                 /\ ~c.sock[s].ping
                 /\ c.wsRef # s
      live(ref, f) == IF ref # NoSock /\ c.sock[ref][f] THEN ref ELSE NoSock
  IN  [c EXCEPT !.sock = [s \in DOMAIN c.sock |->
                           IF dead(s) THEN WsNoSocket ELSE c.sock[s]],
                !.reconnectTimeoutRef = live(c.reconnectTimeoutRef, "timer"),
                !.pingIntervalRef = live(c.pingIntervalRef, "ping")]

\* connect() of the render whose token was tok and whose reconnectAttempts was n
wsConnect(c, tok, n) ==
  IF connectReturns(c, tok) THEN c
  ELSE LET f == CHOOSE s \in WsFreeSlots(c) : \A r \in WsFreeSlots(c) : s <= r
       IN  [c EXCEPT !.sock[f] = WsNewSocket(tok, n), !.wsRef = f]

WsCanConnect(c, tok) == connectReturns(c, tok) \/ WsFreeSlots(c) # {}

wsDisconnect(c) ==
  LET c1 == clearInterval(clearTimeout(c))
      c2 == IF c1.wsRef # NoSock
            THEN [close(c1, c1.wsRef) EXCEPT !.wsRef = NoSock]
            ELSE c1
  IN  [c2 EXCEPT !.isConnected = FALSE, !.reconnectAttempts = 0]

\* an onopen that starts no interval
onopenNoInterval(c, s) ==
  [c EXCEPT !.isConnected = TRUE, !.reconnectAttempts = 0]

\* ws.onopen of socket s
wsOnopen(c, s) ==
  [c EXCEPT !.isConnected = TRUE, !.reconnectAttempts = 0,
            !.sock[s].ping = TRUE, !.pingIntervalRef = s]

\* Math.pow(2, reconnectAttempts) * 1000 + Math.random() * 1000
wsDelay(n, jitter) == (2 ^ n) * BaseDelay + jitter

\* the test of onclose on the counter its connect captured
wsSchedules(c, s) == c.sock[s].attempts < maxReconnectAttempts

\* ws.onclose of socket s
wsOnclose(c, s) ==
  LET c1 == clearInterval([c EXCEPT !.isConnected = FALSE])
  IN  IF wsSchedules(c, s)
      THEN [c1 EXCEPT !.sock[s].timer = TRUE, !.reconnectTimeoutRef = s]
      ELSE c1

WsSetConn(c) ==
  LET n == WsCollect(c)
  IN  /\ sock' = n.sock
      /\ wsRef' = n.wsRef
      /\ reconnectTimeoutRef' = n.reconnectTimeoutRef
      /\ pingIntervalRef' = n.pingIntervalRef
      /\ isConnected' = n.isConnected
      /\ reconnectAttempts' = n.reconnectAttempts

\* the record of a task of useWebSocket: delay is that of the timeout the task set
\* (0: it set none), period that of the interval it set (0: none)
WsTask(op, s, delay, period) == [op |-> op, sock |-> s, delay |-> delay, period |-> period]

InitWS ==
  /\ token = NoToken
  /\ sock = [s \in WsSocks |-> WsNoSocket]
  /\ wsRef = NoSock
  /\ reconnectTimeoutRef = NoSock
  /\ pingIntervalRef = NoSock
  /\ isConnected = FALSE
  /\ pendingTrades = <<>>
  /\ executingTradeId = NoId
  /\ sent = <<>>
  /\ last = WsTask("mount", NoSock, 0, 0)
  /\ tornDown = TRUE
  /\ reconnectAttempts = 0
  /\ closureAttempts = 0
  /\ retries = 0
  /\ needsApproval = FALSE
  /\ isApproving = FALSE
  /\ approvalsInFlight = 0
  /\ skippedInFlight = {}

\* reconnectAttempts differs from the value the current connect captured: React has
\* a render scheduled.  The render is queued when the state is set, ahead of timers
\* that are a second or more away and of network events, so it runs before the next
\* timer, socket event or call of the hook's API
RenderPending == reconnectAttempts # closureAttempts

\* the auth store changes: a synchronous render with the counter as it stands, the
\* effect's cleanup and its body
WsAuthChange(t) ==
  /\ ~RenderPending
  /\ t # token
  /\ LET c1 == WsCollect(wsDisconnect(WsCur))
     IN  /\ WsCanConnect(c1, t)
         /\ WsSetConn(IF t # NoToken
                      THEN wsConnect(c1, t, reconnectAttempts)
                      ELSE wsDisconnect(c1))
  /\ token' = t
  /\ closureAttempts' = reconnectAttempts
  /\ retries' = 0
  /\ sent' = <<>>
  /\ last' = WsTask("auth", NoSock, 0, 0)
  /\ UNCHANGED <<apprVars, storeVars, tornDown>>

\* the render after reconnectAttempts changed: connect is a new callback, so the
\* effect's cleanup (disconnect) and body (connect, or disconnect when logged out) run
WsEffectRerun ==
  /\ RenderPending
  /\ LET c1 == WsCollect(wsDisconnect(WsCur))
     IN  /\ WsCanConnect(c1, token)
         /\ WsSetConn(IF token # NoToken
                      THEN wsConnect(c1, token, reconnectAttempts)
                      ELSE wsDisconnect(c1))
  /\ closureAttempts' = reconnectAttempts
  /\ sent' = <<>>
  /\ last' = WsTask("effect", NoSock, 0, 0)
  /\ UNCHANGED <<apprVars, token, storeVars, tornDown, retries>>

\* the caller uses the disconnect the hook returns
WsDisconnect ==
  /\ ~RenderPending
  /\ WsSetConn(wsDisconnect(WsCur))
  /\ retries' = 0
  /\ sent' = <<>>
  /\ last' = WsTask("disconnect", NoSock, 0, 0)
  /\ UNCHANGED <<apprVars, token, storeVars, tornDown, closureAttempts>>

\* the caller uses reconnect, the connect of the last render
WsReconnect ==
  /\ ~RenderPending
  /\ LET c1 == WsCollect(WsCur)
     IN  /\ WsCanConnect(c1, token)
         /\ WsSetConn(wsConnect(c1, token, closureAttempts))
  /\ retries' = 0
  /\ sent' = <<>>
  /\ last' = WsTask("connect", NoSock, 0, 0)
  /\ UNCHANGED <<apprVars, token, storeVars, tornDown, closureAttempts>>

WsOnOpen(s) ==
  /\ ~RenderPending
  /\ sock[s].readyState = "CONNECTING"
  /\ WsSetConn(wsOnopen([WsCur EXCEPT !.sock[s].readyState = "OPEN"], s))
  /\ retries' = 0
  /\ sent' = <<>>
  /\ last' = WsTask("onopen", s, 0, PingPeriod)
  /\ UNCHANGED <<apprVars, token, storeVars, tornDown, closureAttempts>>

\* the close event of socket s: the connection failed, the server closed it, or the
\* closing handshake that ws.close() started is over
WsOnClose(s, jitter) ==
  /\ ~RenderPending
  /\ sock[s].readyState \in {"CONNECTING", "OPEN", "CLOSING"}
  /\ WsSetConn(wsOnclose([WsCur EXCEPT !.sock[s].readyState = "CLOSED"], s))
  /\ sent' = <<>>
  /\ last' = WsTask("onclose", s,
                    IF wsSchedules(WsCur, s) THEN wsDelay(sock[s].attempts, jitter) ELSE 0, 0)
  /\ UNCHANGED <<apprVars, token, storeVars, tornDown, closureAttempts, retries>>

\* the timeout that onclose of socket s set fires: the counter's update is queued
\* and connect() of that closure runs
WsReconnectTimeout(s) ==
  /\ ~RenderPending
  /\ sock[s].timer
  /\ retries < MaxRetries
  /\ LET c1 == WsCollect([WsCur EXCEPT !.sock[s].timer = FALSE,
                                       !.reconnectAttempts = @ + 1])
     IN  /\ WsCanConnect(c1, sock[s].token)
         /\ WsSetConn(wsConnect(c1, sock[s].token, sock[s].attempts))
  /\ retries' = retries + 1
  /\ sent' = <<>>
  /\ last' = WsTask("reconnect", s, 0, 0)
  /\ UNCHANGED <<apprVars, token, storeVars, tornDown, closureAttempts>>

\* the interval that onopen of socket s set fires
WsPingInterval(s) ==
  /\ ~RenderPending
  /\ sock[s].ping
  /\ sent' = IF sock[s].readyState = "OPEN" THEN <<Frame("ping", NoId, "", s)>> ELSE <<>>
  /\ last' = WsTask("ping", s, 0, 0)
  /\ UNCHANGED <<apprVars, token, connVars, storeVars, tornDown, wsVars>>

\* ---- ws.onmessage of useWebSocket
\* the texts the positions socket delivers: the reply to a ping, which is no JSON,
\* and a frame of each type
WsTexts == {"pong"} \cup {FrameText(type) : type \in TextTypes}

\* a sink that leaves the portfolio query alone
invalidatesPositionsOnly(type) ==
  CASE type \in {"position_update", "position_opened", "position_closed"}
         -> <<"portfolio-positions">>
    [] type = "copy_updated" -> <<"copies">>
    [] OTHER -> <<>>

\* the query keys that the case of a type passes to queryClient.invalidateQueries,
\* in the order of the calls
invalidateQueries(type) ==
  CASE type = "position_update" -> <<"portfolio-positions">>
    [] type \in {"position_opened", "position_closed"} -> <<"portfolio-positions", "portfolio">>
    [] type = "copy_updated" -> <<"copies">>
    [] OTHER -> <<>>

\* the calls of toast in the case of a type
toasts(type) == IF type \in {"position_opened", "position_closed"} THEN 1 ELSE 0

\* the record of an onmessage task of useWebSocket: what the text decoded to, the
\* query keys invalidated and the number of toasts
WsMessageTask(type, keys, n) ==
  [op |-> "onmessage", sock |-> NoSock, delay |-> 0, period |-> 0,
   type |-> type, keys |-> keys, toasts |-> n]

\* ws.onmessage with event.data = text, on a socket that is open.  The provider
\* that mounts the hook passes no options, so no callback of optionsRef is called
WsOnMessage(text) ==
  /\ ~RenderPending
  /\ \E s \in WsSocks : sock[s].readyState = "OPEN"
  /\ sent' = <<>>
  /\ last' = LET message == JSONparse(text)
             IN  IF message = SyntaxError
                 THEN WsMessageTask("SyntaxError", <<>>, 0)
                 ELSE WsMessageTask(message.type, invalidateQueries(message.type),
                                    toasts(message.type))
  /\ UNCHANGED <<apprVars, token, connVars, storeVars, tornDown, wsVars>>

\* useWebSocket under one account: log-in and log-out, the renders its counter
\* causes, the caller's disconnect and reconnect, socket events and both timers
WsNext ==
  \/ \E t \in {"tokA", NoToken} : WsAuthChange(t)
  \/ WsEffectRerun
  \/ WsDisconnect
  \/ WsReconnect
  \/ \E s \in WsSocks : WsOnOpen(s)
  \/ \E s \in WsSocks, jitter \in Jitters : WsOnClose(s, jitter)
  \/ \E s \in WsSocks : WsReconnectTimeout(s)
  \/ \E s \in WsSocks : WsPingInterval(s)

SpecWS == InitWS /\ [][WsNext]_vars

\* useWebSocket and the frames that arrive: log-in and log-out, the renders, socket
\* events, the reconnect timeout, and every text on an open socket
SinkNext ==
  \/ \E t \in {"tokA", NoToken} : WsAuthChange(t)
  \/ WsEffectRerun
  \/ \E s \in WsSocks : WsOnOpen(s)
  \/ \E s \in WsSocks, jitter \in Jitters : WsOnClose(s, jitter)
  \/ \E s \in WsSocks : WsReconnectTimeout(s)
  \/ \E text \in WsTexts : WsOnMessage(text)

SpecSink == InitWS /\ [][SinkNext]_vars

\* ---- useWebSocket with reconnect timeouts that come due together.  Each retry
\* leaves closed sockets behind whose onclose set timeouts of their own, and
\* disconnect() clears only the one the ref holds, so several timeouts are pending
\* at once.  The render that a timeout's setReconnectAttempts queues is a task of
\* its own: an event loop that is throttled or busy runs the timeouts that are due
\* back to back, before that render.
MaxBacklogSockets == 5   \* WebSocket objects alive at once in SpecBacklog

BacklogSocks == 1..MaxBacklogSockets

InitBacklog ==
  /\ token = NoToken
  /\ sock = [s \in BacklogSocks |-> WsNoSocket]
  /\ wsRef = NoSock
  /\ reconnectTimeoutRef = NoSock
  /\ pingIntervalRef = NoSock
  /\ isConnected = FALSE
  /\ pendingTrades = <<>>
  /\ executingTradeId = NoId
  /\ sent = <<>>
  /\ last = WsTask("mount", NoSock, 0, 0)
  /\ tornDown = TRUE
  /\ reconnectAttempts = 0
  /\ closureAttempts = 0
  /\ retries = 0
  /\ needsApproval = FALSE
  /\ isApproving = FALSE
  /\ approvalsInFlight = 0
  /\ skippedInFlight = {}

\* the sockets whose connection attempt or closing handshake has not ended
InFlight == {s \in DOMAIN sock : sock[s].readyState \in {"CONNECTING", "CLOSING"}}

\* a timeout fires in its time, a second or more after it was set: the server
\* refuses every connection at once, so no socket is in flight any more
WsTimeoutOnTime(s) ==
  /\ InFlight = {}
  /\ WsReconnectTimeout(s)

\* a timeout that is due fires before the render that an earlier timeout queued:
\* its update of the counter is queued behind the others, and connect() of its
\* closure runs.  The counter is followed to one past maxReconnectAttempts
WsTimeoutBeforeRender(s) ==
  /\ RenderPending
  /\ sock[s].timer
  /\ reconnectAttempts <= maxReconnectAttempts
  /\ LET c1 == WsCollect([WsCur EXCEPT !.sock[s].timer = FALSE,
                                       !.reconnectAttempts = @ + 1])
     IN  /\ WsCanConnect(c1, sock[s].token)
         /\ WsSetConn(wsConnect(c1, sock[s].token, sock[s].attempts))
  /\ retries' = retries + 1
  /\ sent' = <<>>
  /\ last' = WsTask("reconnect", s, 0, 0)
  /\ UNCHANGED <<apprVars, token, storeVars, tornDown, closureAttempts>>

\* useWebSocket logged in against a server that refuses every connection: the
\* log-in, the renders, the close events, the timeouts in their time and late
BacklogNext ==
  \/ WsAuthChange("tokA")
  \/ WsEffectRerun
  \/ \E s \in BacklogSocks : WsOnClose(s, 0)
  \/ \E s \in BacklogSocks : WsTimeoutOnTime(s)
  \/ \E s \in BacklogSocks : WsTimeoutBeforeRender(s)

SpecBacklog == InitBacklog /\ [][BacklogNext]_vars

\* ======================================================================
\* The claims about the store and the caller's operations, under Spec
\* ======================================================================
NoDuplicateIds(trades) ==
  \A i, j \in 1..Len(trades) : trades[i].id = trades[j].id => i = j

\* C1: the store never holds two entries with the same id, and a new_copy_trade
\* frame for an id the store already holds leaves the store as it was (the first
\* entry received survives, with its original size).
C1_FirstWriteWins ==
  [][/\ NoDuplicateIds(pendingTrades')
     /\ (last'.op = "new_copy_trade" /\ last'.had) => pendingTrades' = pendingTrades]_vars

\* C2: after a trade_status frame with status executed or skipped, the trade_id it
\* names is absent from the store, whether the store held it before or not.
C2_TradeStatusRemoves ==
  (last.op = "trade_status" /\ last.status \in {"executed", "skipped"})
    => last.id \notin Ids(pendingTrades)

\* a skipped status took a stored trade out and left another entry in place
C2_Witness ==
  /\ last.op = "trade_status"
  /\ last.status = "skipped"
  /\ last.had
  /\ last.id \notin Ids(pendingTrades)
  /\ pendingTrades # <<>>

\* the positions of a list whose trade is pending
PendingAt(trades) == {i \in 1..Len(trades) : trades[i].status = "pending"}

\* store is the pending entries of trades, each once, in the order of trades
IsPendingSubsequence(store, trades) ==
  /\ Len(store) = Cardinality(PendingAt(trades))
  /\ \A i \in PendingAt(trades) :
       store[Cardinality({j \in PendingAt(trades) : j <= i})] = trades[i]

\* C3: after a pending_trades frame with a trades list, the store is exactly the
\* entries of that list whose status is "pending", in the list's order, whatever
\* the store held before.
C3_SnapshotReplaces ==
  last.op = "pending_trades" => IsPendingSubsequence(pendingTrades, last.trades)

\* a snapshot of an executed and a pending trade replaced a store that held entries
C3_Witness ==
  /\ last.op = "pending_trades"
  /\ last.had
  /\ Len(last.trades) = 2
  /\ last.trades[1].status = "executed"
  /\ last.trades[2].status = "pending"
  /\ pendingTrades = <<last.trades[2]>>

\* an execute_trade frame for the trade the last task names is on the wire
ExecuteFrameSent ==
  \E i \in 1..Len(sent) :
    /\ sent[i].type = "execute_trade"
    /\ sent[i].trade_id = last.id
    /\ sent[i].tx_hash = DemoTx

\* executeTradeOnChain ran past its wallet guard on a trade the store held
ExecutedStored ==
  last.op = "executeTradeOnChain" /\ last.status = "wallet" /\ last.had

C5_SkipRemovesAtOnce ==
  [][/\ last'.op = "skipTrade" => last'.id \notin Ids(pendingTrades')
     /\ \A id \in TradeIds :
          (id \notin Ids(pendingTrades) /\ id \in Ids(pendingTrades'))
            => /\ last'.op \in {"pending_trades", "new_copy_trade"}
               /\ id \in Ids(last'.trades)]_vars

\* a stored trade was skipped while no transport was open: no frame left, and the
\* id is gone
C5_Witness ==
  /\ last.op = "skipTrade"
  /\ last.had
  /\ sent = <<>>
  /\ last.id \notin Ids(pendingTrades)

\* the tasks that call sendMessage
SendOps == {"executeTradeOnChain", "skipTrade", "refreshPendingTrades"}

\* C6: a send while the transport is not open puts no frame on the wire and changes
\* nothing of the connection, for sendMessage (execute_trade, skip_trade,
\* get_pending) and for the ping interval; no frame is kept for later: every frame
\* on the wire was put there by the sending task itself.
C6_SendDroppedUnlessOpen ==
  [][/\ (last'.op \in SendOps /\ ~IsOpen(Cur, wsRef))
          => (sent' = <<>> /\ UNCHANGED connVars)
     /\ (last'.op = "ping" /\ sock[last'.sock].readyState # "OPEN")
          => (sent' = <<>> /\ UNCHANGED connVars)
     /\ last'.op \notin (SendOps \cup {"ping"}) => sent' = <<>>]_vars

\* a stored trade was skipped while the new transport was still connecting
C6_Witness ==
  /\ last.op = "skipTrade"
  /\ last.had
  /\ wsRef # NoSock
  /\ sock[wsRef].readyState = "CONNECTING"
  /\ sent = <<>>

\* ======================================================================
\* The claims about the connection manager, under SpecConn
\* ======================================================================
\* C7: at most one transport is connecting or open at any time.
C7_OneLiveTransport == Cardinality(Live(Cur)) <= 1

\* C8: connect() called while the current transport is connecting or open (here:
\* by a reconnect timeout) creates no transport and leaves wsRef as it is.
C8_ConnectIdempotent ==
  [][(/\ last'.op = "reconnect"
      /\ wsRef # NoSock
      /\ sock[wsRef].readyState \in {"CONNECTING", "OPEN"})
       => (wsRef' = wsRef /\ Live(Cur)' = Live(Cur))]_vars

\* C9: from a disconnect() until the caller's next connect(), no reconnect timeout
\* and no ping interval fires.
C9_NoTimerAfterDisconnect ==
  [][tornDown => last'.op \notin {"reconnect", "ping"}]_vars

\* C10: while no token is present, no transport is connecting or open.
C10_NoTransportLoggedOut == token = NoToken => Live(Cur) = {}

\* C13: a task that runs disconnect() (the caller's, or the effect's on a change of
\* the token) leaves no reconnect timeout pending: one that a close had scheduled
\* and that has not fired yet is cancelled and never fires.
C13_DisconnectCancelsReconnect ==
  [][last'.op \in {"disconnect", "auth"} => \A s \in Socks : ~sock'[s].timer]_vars

\* C19: after the close event of a transport, isConnected is false and the ping
\* interval that this transport's onopen started is cancelled; an interval that
\* fires for a transport that is not open sends nothing.
C19_CloseCancelsHeartbeat ==
  [][/\ last'.op = "onclose" => (~isConnected' /\ ~sock'[last'.sock].ping)
     /\ (last'.op = "ping" /\ sock[last'.sock].readyState # "OPEN") => sent' = <<>>]_vars

\* C21: an error event of a transport leads to what its close without an error
\* leads to: the socket is closed, isConnected is false, its reconnect timeout is
\* set and held by reconnectTimeoutRef as after any close, every ref is as a close
\* alone leaves it, and the caller sees nothing of it (token and store untouched,
\* no frame sent).
C21_ErrorIsUncleanClose ==
  [][(last'.op = "onclose" /\ last'.status = "error") =>
       LET s == last'.sock
           n == Collect(onclose([Cur EXCEPT !.sock[s].readyState = "CLOSED"], s))
       IN  /\ sock'[s].readyState = "CLOSED"
           /\ ~isConnected'
           /\ sock'[s].timer
           /\ reconnectTimeoutRef' = s
           /\ sock' = n.sock
           /\ wsRef' = n.wsRef
           /\ pingIntervalRef' = n.pingIntervalRef
           /\ sent' = <<>>
           /\ UNCHANGED <<token, storeVars>>]_vars

\* the open transport of a logged-in session ended with an error event: it is
\* closed, still the current handle, and its reconnection is scheduled
C21_Witness ==
  /\ last.op = "onclose"
  /\ last.status = "error"
  /\ token # NoToken
  /\ wsRef = last.sock
  /\ sock[last.sock].readyState = "CLOSED"
  /\ sock[last.sock].timer
  /\ reconnectTimeoutRef = last.sock
  /\ ~isConnected

\* ======================================================================
\* More claims about the store and the caller's operations, under Spec
\* ======================================================================
\* C15: an execute on a trade id for which the preceding task was an execute that
\* emitted its execute_trade frame (the id is executed already, and no snapshot
\* came in between) is a no-op: no second frame, the store as it was.
C15_SecondExecuteIsNoOp ==
  [][(/\ last.op = "executeTradeOnChain"
      /\ ExecuteFrameSent
      /\ last'.op = "executeTradeOnChain"
      /\ last'.id = last.id)
       => (sent' = <<>> /\ pendingTrades' = pendingTrades)]_vars

\* C17: every entry of the store has status "pending".
C17_OnlyPendingStored ==
  \A i \in 1..Len(pendingTrades) : pendingTrades[i].status = "pending"

\* the last task was an execute whose execution step failed: the try block threw
\* before the trade was taken out of the store
ExecuteFailed ==
  last.op = "executeTradeOnChain" /\ last.status \in {"toast", "send"}

\* C14: when the execution step of an execute on trade T throws, the store is as it
\* was (T remains), no execute_trade frame is emitted and executingTradeId is
\* cleared; nothing retries by itself: an execute_trade frame only ever leaves in a
\* task that is a call of executeTradeOnChain.
C14_FailedExecuteKeepsTrade ==
  [][/\ ExecuteFailed' =>
          /\ pendingTrades' = pendingTrades
          /\ sent' = <<>>
          /\ executingTradeId' = NoId
     /\ (\E i \in 1..Len(sent') : sent'[i].type = "execute_trade")
          => last'.op = "executeTradeOnChain"]_vars

\* ws.send threw during the execute of a stored trade on an open transport, and the
\* trade is still stored
C14_Witness ==
  /\ ExecuteFailed
  /\ last.status = "send"
  /\ last.had
  /\ last.id \in Ids(pendingTrades)
  /\ IsOpen(Cur, wsRef)
  /\ sent = <<>>
  /\ executingTradeId = NoId

\* ======================================================================
\* The claims about reconnection and the heartbeat, under SpecWS
\* ======================================================================
\* the task was the close event of a connection attempt that failed, or of an open
\* transport that the server or the network closed, while logged in: not the end
\* of a close() of the hook's own
FailureClose ==
  /\ last'.op = "onclose"
  /\ sock[last'.sock].readyState \in {"CONNECTING", "OPEN"}
  /\ token # NoToken

\* C11: a transport failure that schedules a reconnection does so with a delay in
\* [base * 2^n, base * 2^n + jitterWindow], n being the number of reconnection
\* attempts made since the last open (base = jitterWindow = 1000 ms).
C11_DelayWithinBackoff ==
  [][(FailureClose /\ last'.delay # 0)
       => /\ last'.delay >= BaseDelay * (2 ^ retries)
          /\ last'.delay <= BaseDelay * (2 ^ retries) + JitterWindow]_vars

\* C12: once maxReconnectAttempts (5) reconnection attempts have been made without
\* an open (and without the caller connecting or disconnecting), a close schedules
\* no further reconnection.
C12_ReconnectionBounded ==
  (last.op = "onclose" /\ retries >= maxReconnectAttempts) => last.delay = 0

\* C18: the open event of a transport leaves isConnected true, reconnectAttempts 0
\* and an interval of 25 s running for that transport, held by pingIntervalRef; when
\* the interval fires while the transport is open, it sends one ping on it.
C18_OpenStartsHeartbeat ==
  [][/\ last'.op = "onopen" =>
          /\ isConnected'
          /\ reconnectAttempts' = 0
          /\ sock'[last'.sock].readyState = "OPEN"
          /\ sock'[last'.sock].ping
          /\ pingIntervalRef' = last'.sock
          /\ last'.period = PingPeriod
     /\ (last'.op = "ping" /\ sock[last'.sock].readyState = "OPEN")
          => sent' = <<Frame("ping", NoId, "", last'.sock)>>]_vars

\* the interval of the open transport fired and a ping left on it
C18_Witness ==
  /\ last.op = "ping"
  /\ isConnected
  /\ reconnectAttempts = 0
  /\ pingIntervalRef = last.sock
  /\ wsRef = last.sock
  /\ sent = <<Frame("ping", NoId, "", last.sock)>>

\* C20: a close that disconnect() did not cause, with a token present, schedules a
\* reconnection, and a transport that is connecting or open is only ever closed by
\* the hook when the caller asked for it (disconnect(), or a change of the token):
\* the transport a retry created is left to open.
C20_RetryTransportSurvives ==
  [][/\ (/\ last'.op = "onclose"
         /\ sock[last'.sock].readyState # "CLOSING"
         /\ token # NoToken)
          => last'.delay # 0
     /\ last'.op \notin {"auth", "disconnect"}
          => \A s \in WsSocks :
               sock[s].readyState \in {"CONNECTING", "OPEN"}
                 => sock'[s].readyState # "CLOSING"]_vars

\* ======================================================================
\* The claims about frames that are no JSON and about approvals, under SpecOrch
\* ======================================================================
\* the last task was an onmessage whose JSON.parse threw
FrameNotJson == last.op = "onmessage" /\ last.status = "SyntaxError"

\* C22: a frame whose text is no JSON changes nothing: the store, executingTradeId,
\* the approval flags and the calls in flight, the sockets, the refs and
\* isConnected are as before and no frame is sent; a new_copy_trade frame that
\* comes right after it is appended to the store as always.
C22_UndecodableFrameDropped ==
  [][/\ FrameNotJson' =>
          /\ UNCHANGED <<storeVars, needsApproval, isApproving, approvalsInFlight>>
          /\ UNCHANGED <<connVars, token>>
          /\ sent' = <<>>
     /\ (FrameNotJson /\ last'.op = "new_copy_trade")
          => pendingTrades' = pendingTrades \o last'.trades]_vars

\* a frame that is no JSON came in while the store held trades and an approval
\* was in flight, and the connection is still reported open
C22_Witness ==
  /\ FrameNotJson
  /\ last.had
  /\ pendingTrades # <<>>
  /\ isApproving
  /\ approvalsInFlight > 0
  /\ isConnected
  /\ IsOpen(Cur, wsRef)

\* ======================================================================
\* The claims about the order of the store, under Spec
\* ======================================================================
\* the positions of a list whose trade has another id than id
OtherAt(trades, id) == {i \in 1..Len(trades) : trades[i].id # id}

\* new is old without the entries of that id, the others each once and in old's order
IsWithoutId(new, old, id) ==
  /\ Len(new) = Cardinality(OtherAt(old, id))
  /\ \A i \in OtherAt(old, id) :
       new[Cardinality({j \in OtherAt(old, id) : j <= i})] = old[i]

\* new is what the reducer of the task makes of old: snapshot for a pending_trades
\* frame, append for a new_copy_trade frame, removeById for a trade_status frame
\* with a terminal status, for a skip and for an execute past its wallet guard and
\* its sending; nothing for any other task
Reduced(new, old, task) ==
  CASE task.op = "pending_trades" -> IsPendingSubsequence(new, task.trades)
    [] task.op = "new_copy_trade" -> new = old \o task.trades
    [] task.op = "trade_status" /\ task.status \in {"executed", "skipped"}
         -> IsWithoutId(new, old, task.id)
    [] task.op = "skipTrade" -> IsWithoutId(new, old, task.id)
    [] task.op = "executeTradeOnChain" /\ task.status \in {"wallet", "recorded"}
         -> IsWithoutId(new, old, task.id)
    [] OTHER -> new = old

\* C23: the store after a task is the reducer of that task applied to the store as
\* the task before left it, for frames and for the caller's skip and execute alike,
\* and no other task touches it: from the empty store on, the store is the fold of
\* the reducers over the frames and operations in the order they came.
C23_StoreIsFoldOfFrames ==
  [][Reduced(pendingTrades', pendingTrades, last')]_vars

\* a new_copy_trade frame came to a store of two trades with different ids: the
\* store is the two followed by the new one
C23_Witness ==
  /\ last.op = "new_copy_trade"
  /\ Len(pendingTrades) = 3
  /\ pendingTrades[3] = last.trades[1]
  /\ pendingTrades[1].id # pendingTrades[2].id
  /\ pendingTrades[1].size # pendingTrades[3].size

\* sub is full with some entries left out: what remains is in full's order
RECURSIVE IsOrderedSubseq(_, _)
IsOrderedSubseq(sub, full) ==
  IF sub = <<>> THEN TRUE
  ELSE IF full = <<>> THEN FALSE
  ELSE IF Head(sub) = Head(full) THEN IsOrderedSubseq(Tail(sub), Tail(full))
  ELSE IsOrderedSubseq(sub, Tail(full))

\* the tasks that take trades out by id
RemovalOps == {"trade_status", "skipTrade", "executeTradeOnChain"}

\* C24: a new_copy_trade frame puts its trade at the end of the store, behind the
\* entries that were there, which stay as they were; a trade_status frame, a skip
\* and an execute leave the entries that remain in the order they had.
C24_InsertionOrderKept ==
  [][/\ last'.op = "new_copy_trade" =>
          /\ Len(pendingTrades') = Len(pendingTrades) + 1
          /\ pendingTrades'[Len(pendingTrades')] = last'.trades[1]
          /\ SubSeq(pendingTrades', 1, Len(pendingTrades)) = pendingTrades
     /\ last'.op \in RemovalOps =>
          /\ Len(pendingTrades') <= Len(pendingTrades)
          /\ IsOrderedSubseq(pendingTrades', pendingTrades)]_vars

\* a removal took one entry out of a store of three and left two different entries
C24_Witness ==
  /\ last.op \in RemovalOps
  /\ last.had
  /\ Len(pendingTrades) = 2
  /\ pendingTrades[1] # pendingTrades[2]

\* the task takes the trades of task.id out of the store: a trade_status frame with
\* a terminal status, a skip, an execute that got past its wallet guard and its send
Removes(task) ==
  \/ task.op = "trade_status" /\ task.status \in {"executed", "skipped"}
  \/ task.op = "skipTrade"
  \/ task.op = "executeTradeOnChain" /\ task.status \in {"wallet", "recorded"}

\* C25: a removal (trade_status with executed or skipped, skip, execute) for an id
\* the store does not hold leaves the store as it is, and so does a removal that
\* comes right after a removal of the same id, such as the server's trade_status
\* after a local skip or execute: twice is the same as once.
C25_RemovalIdempotent ==
  [][/\ (Removes(last') /\ ~last'.had) => pendingTrades' = pendingTrades
     /\ (Removes(last) /\ Removes(last') /\ last'.id = last.id)
          => pendingTrades' = pendingTrades]_vars

\* the server's trade_status came for an id that is not in the store, which holds
\* other trades and still does
C25_Witness ==
  /\ last.op = "trade_status"
  /\ last.status \in {"executed", "skipped"}
  /\ ~last.had
  /\ pendingTrades # <<>>

\* ======================================================================
\* The claims about approvals, under SpecOrch
\* ======================================================================
\* C26: the task that starts an approval (approveUsdcSpending with a wallet, up to
\* its await) leaves needsApproval and isApproving true, and the task in which the
\* approval is confirmed leaves both false.
C26_ApprovalSetsAndClearsFlags ==
  [][/\ (last'.op = "approveUsdcSpending" /\ last'.status = "pending")
          => (needsApproval' /\ isApproving')
     /\ (last'.op = "approvalResumes" /\ last'.status = "confirmed")
          => (~needsApproval' /\ ~isApproving')]_vars

\* the last task was an approval that failed: a toast of approveUsdcSpending threw,
\* before or after the await, and its catch block ran
ApprovalFailed ==
  last.op \in {"approveUsdcSpending", "approvalResumes"} /\ last.status = "toast"

\* C27: after an approval that failed, needsApproval is true and isApproving false,
\* and the failure left the store, the sockets, the refs and isConnected as they
\* were.
C27_FailedApprovalKeepsNeed ==
  [][ApprovalFailed' =>
       /\ needsApproval'
       /\ ~isApproving'
       /\ UNCHANGED <<storeVars, connVars>>]_vars

\* the tasks in which a call of the approval or of the execution ends
CompletionOps == {"approveUsdcSpending", "approvalResumes", "executeTradeOnChain"}

\* C28: the task in which an approval or an execution ends, as confirmed or as
\* failed, only takes entries out of the store and only clears executingTradeId:
\* an id that was skipped while the call was in flight and is absent stays absent,
\* also when disconnect() was called meanwhile.
C28_CompletionNeverRestores ==
  [][last'.op \in CompletionOps =>
       /\ IsOrderedSubseq(pendingTrades', pendingTrades)
       /\ executingTradeId' \in {executingTradeId, NoId}
       /\ \A id \in skippedInFlight :
            id \notin Ids(pendingTrades) => id \notin Ids(pendingTrades')]_vars

\* in a session whose caller has called disconnect(), an approval that was in
\* flight while a stored trade was skipped has failed after its await, and the
\* trade is still absent from a store that holds another
C28_Witness ==
  /\ last.op = "approvalResumes"
  /\ last.status = "toast"
  /\ tornDown
  /\ token # NoToken
  /\ skippedInFlight # {}
  /\ \A id \in skippedInFlight : id \notin Ids(pendingTrades)
  /\ pendingTrades # <<>>

\* ======================================================================
\* The claim about the token of a connection attempt, under SpecConn
\* ======================================================================
\* C29: a transport that a task creates, the effect's connect() or that of a
\* reconnect timeout, carries the token the auth store holds when the task runs.
C29_AttemptUsesCurrentToken ==
  [][\A s \in Socks :
       (sock[s].readyState # "CONNECTING" /\ sock'[s].readyState = "CONNECTING")
         => sock'[s].token = token']_vars

NothingApplicable(message) ==
  \/ message.type \notin {"pending_trades", "new_copy_trade", "trade_status"}
  \/ message.type = "pending_trades" /\ "trades" \notin DOMAIN message
  \/ message.type = "new_copy_trade" /\ "trade" \notin DOMAIN message
  \/ /\ message.type = "trade_status"
     /\ ("status" \in DOMAIN message => message.status \notin {"executed", "skipped"})

\* C31: a frame that carries nothing applicable (connected, heartbeat, pong, a type
\* the switch does not know, pending_trades without trades, new_copy_trade without
\* trade, trade_status with a status that is neither executed nor skipped) leaves
\* the store, executingTradeId, needsApproval and isApproving as they were.
C31_InapplicableFrameChangesNothing ==
  [][(last'.op = "message" /\ NothingApplicable(last'.message))
       => UNCHANGED <<pendingTrades, executingTradeId, needsApproval, isApproving>>]_vars

\* a pending_trades frame without a trades field came in while the store held two
\* trades and an approval was in flight
C31_Witness ==
  /\ last.op = "message"
  /\ last.message = [type |-> "pending_trades"]
  /\ Len(pendingTrades) = 2
  /\ isApproving
  /\ approvalsInFlight > 0

\* the last task was a skip, or an execute that got past its wallet guard and
\* its sendMessage
SkippedOrExecuted(task) ==
  \/ task.op = "skipTrade"
  \/ task.op = "executeTradeOnChain" /\ task.status \in {"wallet", "recorded"}

\* the frame of the task, on socket s
FrameOf(task, s) ==
  IF task.op = "skipTrade" THEN Frame("skip_trade", task.id, "", s)
  ELSE Frame("execute_trade", task.id, DemoTx, s)

\* C32: after skipTrade, and after an execute with a wallet, the id is absent from
\* the store whatever the state of the connection; the task puts its skip_trade or
\* execute_trade frame on the wire if the transport of wsRef is open when it runs,
\* and puts nothing on the wire if it is not; an id that is absent from the store
\* only appears in it through a pending_trades or new_copy_trade frame that
\* carries it.
C32_RemovedAlwaysSentWhenOpen ==
  [][/\ SkippedOrExecuted(last') =>
          /\ last'.id \notin Ids(pendingTrades')
          /\ IsOpen(Cur, wsRef) => sent' = <<FrameOf(last', wsRef)>>
          /\ ~IsOpen(Cur, wsRef) => sent' = <<>>
     /\ \A id \in TradeIds :
          (id \notin Ids(pendingTrades) /\ id \in Ids(pendingTrades'))
            => /\ last'.op \in {"pending_trades", "new_copy_trade"}
               /\ id \in Ids(last'.trades)]_vars

\* after the caller's disconnect(), with no transport in wsRef, a stored trade was
\* skipped: it is gone from a store that still holds another, and no frame left
C32_Witness ==
  /\ last.op = "skipTrade"
  /\ last.had
  /\ tornDown
  /\ token # NoToken
  /\ wsRef = NoSock
  /\ sent = <<>>
  /\ last.id \notin Ids(pendingTrades)
  /\ pendingTrades # <<>>

\* the last task was a call of execute or approve in a render without a wallet
CalledWithoutWallet ==
  last.op \in {"executeTradeOnChain", "approveUsdcSpending"} /\ last.status = "noWallet"

\* C36: executeTradeOnChain and approveUsdcSpending, called when no wallet is
\* connected, put no frame on the wire and leave the store, executingTradeId,
\* isApproving and needsApproval as they were (isExecuting, which no task leaves
\* true, is not a variable here).
C36_NoWalletNoEffect ==
  [][CalledWithoutWallet' =>
       /\ sent' = <<>>
       /\ UNCHANGED <<pendingTrades, executingTradeId, isApproving, needsApproval>>]_vars

\* execute was called without a wallet on a stored trade while the transport was
\* open and an approval was in flight: the trade is still stored, nothing was sent
C36_Witness ==
  /\ last.op = "executeTradeOnChain"
  /\ last.status = "noWallet"
  /\ last.had
  /\ last.id \in Ids(pendingTrades)
  /\ IsOpen(Cur, wsRef)
  /\ sent = <<>>
  /\ isApproving

\* the tasks of the connection manager: the effect on a change of the auth store,
\* the caller's disconnect(), the socket's open and close events, the reconnect
\* timeout
ConnectionOps == {"auth", "disconnect", "onopen", "onclose", "reconnect"}

\* C37: disconnect(), the close of a transport and a log-out leave the store as it
\* was, and so does every other task of the connection manager, the next log-in
\* and open included: what the store held when the connection went stays in it
\* until a frame or an operation of the caller changes it.
C37_DisconnectionKeepsStore ==
  [][last'.op \in ConnectionOps => pendingTrades' = pendingTrades]_vars

\* after a log-out the user has logged in again: the new transport is connecting
\* and the store still holds the two trades of the session before
C37_Witness ==
  /\ last.op = "auth"
  /\ token # NoToken
  /\ wsRef # NoSock
  /\ sock[wsRef].readyState = "CONNECTING"
  /\ ~isConnected
  /\ Len(pendingTrades) = 2

\* ======================================================================
\* More claims about the connection manager of useCopyTrades, under SpecConn
\* ======================================================================
\* C33: isConnected is true exactly when the transport that wsRef holds is open;
\* in particular the close event of an earlier transport does not leave it false
\* while the transport of wsRef is open.
C33_IsConnectedAgrees == isConnected <=> IsOpen(Cur, wsRef)

\* the sockets whose ping interval is running
Pinging == {s \in Socks : sock[s].ping}

\* C34: whenever the transport that wsRef holds is open, exactly one ping interval
\* is running and it is the one that transport's onopen started: no earlier
\* interval is still running, and no close event of an earlier transport has
\* cancelled it.
C34_OneHeartbeatOnCurrent == IsOpen(Cur, wsRef) => Pinging = {wsRef}

\* ======================================================================
\* The claim about the range of useWebSocket's counter, under SpecBacklog
\* ======================================================================
\* C35: reconnectAttempts, with every queued update applied, is between 0 and
\* maxReconnectAttempts in every reachable state.
C35_AttemptsWithinMaximum ==
  0 <= reconnectAttempts /\ reconnectAttempts <= maxReconnectAttempts

====
